---- MODULE Spec2Model ----
(***************************************************************************)
(* nvim-oxi: the Object conversion layer (nvim-types/src/conversion.rs)    *)
(* and the call convention of the API wrappers (nvim-api/src/*.rs).        *)
(*                                                                         *)
(* Two specifications share the module:                                    *)
(*   ConvSpec  the primitive conversions, applied to inputs drawn from     *)
(*             bounded sets of Objects and host integers;                  *)
(*   Spec      the API wrappers: one call at a time, each split at the     *)
(*             foreign function it invokes.                                *)
(***************************************************************************)
EXTENDS Integers, Sequences, FiniteSets, TLC

VARIABLES
    ptrBits,    \* width of isize/usize on the build target (32 or 64)
    conv,       \* the last conversion applied: its input and its result
    pc,         \* "idle" | "foreign" | "returned": position of the wrapper
    frame,      \* the wrapper's locals: op, generic type, value argument
    err,        \* the error slot (nvim::Error) of the current call
    heap,       \* the allocations the wrapper owns: how often each was freed
    passed,     \* what the foreign function received: arguments and slot
    payload,    \* what the foreign function returned
    trace,      \* what the wrapper did after the foreign function returned
    result,     \* the Result the wrapper handed to its caller
    slots       \* bookkeeping of error slots: next id, ids set to failure

convVars == <<ptrBits, conv>>
apiVars  == <<pc, frame, err, heap, passed, payload, trace, result, slots>>
vars     == <<ptrBits, conv, pc, frame, err, heap, passed, payload, trace,
              result, slots>>

(***************************************************************************)
(* Bounds.                                                                 *)
(***************************************************************************)
\* host integers are sampled within Delta of every power-of-two boundary
Delta == 1
\* number of wrapped calls made in one behaviour
MaxCalls == 3
\* length of the longest vector converted
MaxVecLen == 3

(***************************************************************************)
(* Integers wider than the checker's own: sign and magnitude, the          *)
(* magnitude in NLimbs limbs of 16 bits, least significant first.  Nine    *)
(* limbs hold every i128 and u128 value and their neighbours.              *)
(***************************************************************************)
LimbBase == 2 ^ 16
NLimbs   == 8 + 1
Limbs    == 1 .. NLimbs

MagZero == [i \in Limbs |-> 0]

MagPow2(k) == [i \in Limbs |-> IF i = (k \div 16) + 1 THEN 2 ^ (k % 16) ELSE 0]

MagInc(m) ==
    LET j == CHOOSE j \in Limbs :
                 /\ m[j] # LimbBase - 1
                 /\ \A i \in 1 .. (j - 1) : m[i] = LimbBase - 1
    IN  [i \in Limbs |-> IF i < j THEN 0 ELSE IF i = j THEN m[i] + 1 ELSE m[i]]

MagDec(m) ==
    LET j == CHOOSE j \in Limbs :
                 /\ m[j] # 0
                 /\ \A i \in 1 .. (j - 1) : m[i] = 0
    IN  [i \in Limbs |-> IF i < j THEN LimbBase - 1
                         ELSE IF i = j THEN m[i] - 1 ELSE m[i]]

MagLess(a, b) ==
    \E j \in Limbs : /\ a[j] < b[j]
                     /\ \A i \in (j + 1) .. NLimbs : a[i] = b[i]

Big(neg, mag) == [neg |-> neg /\ mag # MagZero, mag |-> mag]

Zero == Big(FALSE, MagZero)
One  == Big(FALSE, MagInc(MagZero))

Pow2(k)    == Big(FALSE, MagPow2(k))
NegPow2(k) == Big(TRUE, MagPow2(k))

Less(x, y) ==
    IF x.neg /\ ~y.neg THEN TRUE
    ELSE IF ~x.neg /\ y.neg THEN FALSE
    ELSE IF x.neg THEN MagLess(y.mag, x.mag)
    ELSE MagLess(x.mag, y.mag)

LE(x, y) == x = y \/ Less(x, y)

Succ(x) == IF x.neg THEN Big(TRUE, MagDec(x.mag)) ELSE Big(FALSE, MagInc(x.mag))

Pred(x) == IF x.neg \/ x.mag = MagZero
           THEN Big(TRUE, MagInc(x.mag))
           ELSE Big(FALSE, MagDec(x.mag))

RECURSIVE Shift(_, _)
Shift(x, d) == IF d = 0 THEN x
               ELSE IF d > 0 THEN Shift(Succ(x), d - 1)
               ELSE Shift(Pred(x), d + 1)

(***************************************************************************)
(* The integer host types and their ranges.                                *)
(***************************************************************************)
NarrowTypes == {"i8", "u8", "i16", "u16", "i32", "u32", "u64", "u128",
                "isize", "usize"}
BigTypes    == {"u64", "isize", "usize", "i128", "u128"}
IntTypes    == NarrowTypes \cup BigTypes \cup {"i64"}

Signed(T) == T \in {"i8", "i16", "i32", "i64", "i128", "isize"}

Bits(T, p) ==
    CASE T \in {"i8", "u8"}       -> 8
      [] T \in {"i16", "u16"}     -> 16
      [] T \in {"i32", "u32"}     -> 32
      [] T \in {"i64", "u64"}     -> 64
      [] T \in {"i128", "u128"}   -> 128
      [] T \in {"isize", "usize"} -> p

TypeMin(T, p) == IF Signed(T) THEN NegPow2(Bits(T, p) - 1) ELSE Zero
TypeMax(T, p) == IF Signed(T) THEN Pred(Pow2(Bits(T, p) - 1))
                 ELSE Pred(Pow2(Bits(T, p)))

InRange(T, p, x) == LE(TypeMin(T, p), x) /\ LE(x, TypeMax(T, p))

\* the values the inputs are drawn from: around every width's limits
AnchorBits == {7, 8, 15, 16, 31, 32, 63, 64, 127, 128}
Anchors    == {Zero} \cup {Pow2(k) : k \in AnchorBits}
                     \cup {NegPow2(k) : k \in AnchorBits}
Samples    == {Shift(a, d) : a \in Anchors, d \in (0 - Delta) .. Delta}

ValuesOf(T, p) == {x \in Samples : InRange(T, p, x)}
I64Values      == ValuesOf("i64", 64)

(***************************************************************************)
(* Object: the tagged union.  kind is the discriminant; bits is the raw    *)
(* payload of the union, which every unchecked accessor reads as its own   *)
(* variant without looking at the discriminant.                            *)
(***************************************************************************)
IntKinds == {"Integer", "Buffer", "Window", "TabPage"}

ObjectKind == {"Nil", "Boolean", "Integer", "Float", "String", "Array",
               "Dictionary", "LuaRef", "Buffer", "Window", "TabPage"}

as_static(kind) ==
    CASE kind = "Nil"        -> "nil"
      [] kind = "Boolean"    -> "boolean"
      [] kind = "Integer"    -> "integer"
      [] kind = "Float"      -> "float"
      [] kind = "String"     -> "string"
      [] kind = "Array"      -> "array"
      [] kind = "Dictionary" -> "dictionary"
      [] kind = "LuaRef"     -> "luaref"
      [] kind = "Buffer"     -> "buffer"
      [] kind = "Window"     -> "window"
      [] kind = "TabPage"    -> "tabpage"

Object(kind, bits) == [kind |-> kind, bits |-> bits]
NoObject           == [kind |-> "none", bits |-> Zero]

\* Object::from(i64): the Integer discriminant, the integer as payload
ObjectFromInteger(n) == Object("Integer", n)

\* every as_*_unchecked / into_*_unchecked accessor: the payload, unchecked
unchecked(obj) == obj.bits

(***************************************************************************)
(* conversion::Error and the results of the conversions.                   *)
(***************************************************************************)
NoError == [variant |-> "none", expected |-> "", actual |-> ""]
FromWrongType(expected, actual) ==
    [variant |-> "FromWrongType", expected |-> expected, actual |-> actual]
FromInt == [variant |-> "FromInt", expected |-> "", actual |-> ""]

\* Result<T, Error> of a decode, with the unchecked accessor it invoked
DecOk(v, acc)  == [ok |-> TRUE, val |-> v, err |-> NoError, accessor |-> acc]
DecErr(e, acc) == [ok |-> FALSE, val |-> Zero, err |-> e, accessor |-> acc]
NoDec          == DecErr(NoError, "none")

\* Result<Object, Error> of an encode
EncOk(obj) == [ok |-> TRUE, obj |-> obj, err |-> NoError]
EncErr(e)  == [ok |-> FALSE, obj |-> NoObject, err |-> e]
NoEnc      == EncErr(NoError)

(***************************************************************************)
(* TryFrom<Object> for the primitive types.                                *)
(***************************************************************************)
UnitTryFrom(obj) ==
    IF obj.kind = "Nil" THEN DecOk(Zero, "none")
    ELSE DecErr(FromWrongType("nil", as_static(obj.kind)), "none")

\* a decode that reads the payload whatever the discriminant says
BooleanTryFrom_Unguarded(obj) ==
    IF obj.kind \in {"Boolean", "Integer"}
    THEN DecOk(unchecked(obj), "as_boolean_unchecked")
    ELSE DecErr(FromWrongType("bool", as_static(obj.kind)), "none")

BooleanTryFrom(obj) ==
    IF obj.kind = "Boolean" THEN DecOk(unchecked(obj), "as_boolean_unchecked")
    ELSE DecErr(FromWrongType("bool", as_static(obj.kind)), "none")

\* a decode that forgets the TabPage arm
IntegerTryFrom_NoTabPage(obj) ==
    IF obj.kind \in {"Integer", "Buffer", "Window"}
    THEN DecOk(unchecked(obj), "as_integer_unchecked")
    ELSE DecErr(FromWrongType("integer", as_static(obj.kind)), "none")

IntegerTryFrom(obj) ==
    IF obj.kind \in {"Integer", "Buffer", "Window", "TabPage"}
    THEN DecOk(unchecked(obj), "as_integer_unchecked")
    ELSE DecErr(FromWrongType("integer", as_static(obj.kind)), "none")

FloatTryFrom(obj) ==
    IF obj.kind = "Float" THEN DecOk(unchecked(obj), "as_float_unchecked")
    ELSE DecErr(FromWrongType("float", as_static(obj.kind)), "none")

StringTryFrom(obj) ==
    IF obj.kind = "String" THEN DecOk(unchecked(obj), "into_string_unchecked")
    ELSE DecErr(FromWrongType("string", as_static(obj.kind)), "none")

ArrayTryFrom(obj) ==
    IF obj.kind = "Array" THEN DecOk(unchecked(obj), "into_array_unchecked")
    ELSE DecErr(FromWrongType("string", as_static(obj.kind)), "none")

DictionaryTryFrom(obj) ==
    IF obj.kind = "Dictionary" THEN DecOk(unchecked(obj), "into_dict_unchecked")
    ELSE DecErr(FromWrongType("string", as_static(obj.kind)), "none")

FunctionTryFrom(obj) ==
    IF obj.kind = "LuaRef" THEN DecOk(unchecked(obj), "as_luaref_unchecked")
    ELSE DecErr(FromWrongType("function", as_static(obj.kind)), "none")

\* from_int!(i128): Integer::try_from(obj).map(Into::into)
from_int(obj) == IntegerTryFrom(obj)

\* a narrowing that checks the upper limit only
try_from_int_NoLowerBound(T, p, obj) ==
    LET n == IntegerTryFrom(obj)
    IN  IF ~n.ok THEN n
        ELSE IF LE(n.val, TypeMax(T, p)) THEN n
        ELSE DecErr(FromInt, n.accessor)

\* a narrowing written against the 32-bit limits whatever the type
try_from_int_As32(T, p, obj) ==
    LET n == IntegerTryFrom(obj)
    IN  IF ~n.ok THEN n
        ELSE IF InRange(IF Signed(T) THEN "i32" ELSE "u32", p, n.val) THEN n
        ELSE DecErr(FromInt, n.accessor)

\* try_from_int!(T): Integer::try_from(obj).and_then(|n| Ok(n.try_into()?))
try_from_int(T, p, obj) ==
    LET n == IntegerTryFrom(obj)
    IN  IF ~n.ok THEN n
        ELSE IF InRange(T, p, n.val) THEN n
        ELSE DecErr(FromInt, n.accessor)

\* an encode that saturates instead of failing
bigint_to_obj_Saturating(v) ==
    IF Less(TypeMax("i64", 64), v)
    THEN EncOk(ObjectFromInteger(TypeMax("i64", 64)))
    ELSE IF Less(v, TypeMin("i64", 64))
    THEN EncOk(ObjectFromInteger(TypeMin("i64", 64)))
    ELSE EncOk(ObjectFromInteger(v))

\* bigint_to_obj!(T): Ok(i64::try_from(i)?.into())
bigint_to_obj(v) ==
    IF InRange("i64", 64, v) THEN EncOk(ObjectFromInteger(v))
    ELSE EncErr(FromInt)

PrimTypes == {"()", "Boolean", "Integer", "Float", "String", "Array",
              "Dictionary", "Function"}
Targets   == PrimTypes \cup NarrowTypes \cup {"i128"}

\* T::try_from(obj), by target type
TryFromObj(T, p, obj) ==
    CASE T = "()"         -> UnitTryFrom(obj)
      [] T = "Boolean"    -> BooleanTryFrom(obj)
      [] T = "Integer"    -> IntegerTryFrom(obj)
      [] T = "Float"      -> FloatTryFrom(obj)
      [] T = "String"     -> StringTryFrom(obj)
      [] T = "Array"      -> ArrayTryFrom(obj)
      [] T = "Dictionary" -> DictionaryTryFrom(obj)
      [] T = "Function"   -> FunctionTryFrom(obj)
      [] T = "i128"       -> from_int(obj)
      [] T \in NarrowTypes -> try_from_int(T, p, obj)

(***************************************************************************)
(* The API wrappers.  A wrapper runs in two actions, split at the foreign  *)
(* function it invokes: <op> is the code up to the invocation, <op>_ret    *)
(* the code after it.  Foreign is the embedding application.               *)
(***************************************************************************)
\* crate::Result as the caller sees it; val holds the decoded integers
NoResult == [tag |-> "none", class |-> "none", from |-> "", cerr |-> NoError,
             val |-> <<>>, msg |-> <<>>]
Ok(v) == [NoResult EXCEPT !.tag = "Ok", !.val = v]
\* Err($err.into()): the boundary error made from the error slot
ErrBoundary(e) == [NoResult EXCEPT !.tag = "Err", !.class = "boundary",
                                   !.from = e.type]
\* the `?` on a conversion::Error
ErrConversion(ce) == [NoResult EXCEPT !.tag = "Err", !.class = "conversion",
                                      !.cerr = ce]
\* Error::custom(..)
ErrCustom == [NoResult EXCEPT !.tag = "Err", !.class = "custom"]
\* a failed expect()/unwrap()
Panic == [NoResult EXCEPT !.tag = "Panic"]

\* Ok(V::try_from(obj)?)
OkOrConversion(d) == IF d.ok THEN Ok(<<d.val>>) ELSE ErrConversion(d.err)

\* the error slot: nvim::Error::new() is the success state
NoSlot   == [id |-> 0, type |-> "none"]
ErrorNew == [id |-> slots.next, type |-> "None"]
is_err(e) == e.type # "None"

\* a non-owning view of allocation i of the frame
non_owning(i) == [alloc |-> i, owning |-> FALSE]
\* the owning value itself, moved into the call
moved(i)      == [alloc |-> i, owning |-> TRUE]

\* the evaluation of an expression after the call: its value and what it
\* did, "is_err" (the slot inspected) and "use" (the return value read)
Unit   == [res |-> Ok(<<>>), trace |-> <<>>]
Use(r) == [res |-> r, trace |-> <<"use">>]

\* choose!(err, other): other is evaluated on the success branch only
choose(e, other) ==
    IF is_err(e) THEN [res |-> ErrBoundary(e), trace |-> <<"is_err">>]
    ELSE [res |-> other.res, trace |-> <<"is_err">> \o other.trace]

NoPayload == [obj |-> NoObject, items |-> <<>>]

\* the code of a wrapper up to the foreign call: the owning locals are
\* allocated, the slot (if any) is made, the arguments are handed over
Enter(op, ty, val, owners, slot, fn, args) ==
    /\ pc = "idle"
    /\ slot.id = slots.next => slots.next <= MaxCalls
    /\ frame' = [op |-> op, ty |-> ty, val |-> val]
    /\ err' = slot
    /\ slots' = IF slot.id = slots.next THEN [slots EXCEPT !.next = @ + 1]
                ELSE slots
    /\ heap' = [i \in 1 .. Len(owners) |-> [name |-> owners[i], freed |-> 0]]
    /\ passed' = [fn |-> fn, args |-> args, err |-> slot.id]
    /\ payload' = NoPayload
    /\ trace' = <<>>
    /\ result' = NoResult
    /\ pc' = "foreign"
    /\ UNCHANGED convVars

\* a wrapper that returns through `?` before the foreign call
EarlyReturn(op, ty, val, owners, slot, res) ==
    /\ pc = "idle"
    /\ slot.id = slots.next => slots.next <= MaxCalls
    /\ frame' = [op |-> op, ty |-> ty, val |-> val]
    /\ err' = slot
    /\ slots' = IF slot.id = slots.next THEN [slots EXCEPT !.next = @ + 1]
                ELSE slots
    /\ heap' = [i \in 1 .. Len(owners) |-> [name |-> owners[i], freed |-> 1]]
    /\ passed' = [fn |-> "none", args |-> {}, err |-> 0]
    /\ payload' = NoPayload
    /\ trace' = <<>>
    /\ result' = res
    /\ pc' = "idle"
    /\ UNCHANGED convVars

\* the code of a wrapper after the foreign call: ev is evaluated, then the
\* scope ends: every owning value of the frame is dropped, the arguments of
\* the call among them, and a drop releases the allocation unless the value
\* is a non-owning view
Leave(op, ev) ==
    /\ pc = "returned"
    /\ frame.op = op
    /\ result' = ev.res
    /\ trace' = ev.trace
    /\ heap' = [i \in DOMAIN heap |->
                   [heap[i] EXCEPT !.freed = @ + 1 + Cardinality(
                       {a \in passed.args : a.alloc = i /\ a.owning})]]
    /\ passed' = [passed EXCEPT !.args = {}]
    /\ pc' = "idle"
    /\ UNCHANGED <<frame, err, payload, slots, convVars>>

(***************************************************************************)
(* What the foreign functions hand back.                                   *)
(***************************************************************************)
IntObj(x) == Object("Integer", x)

ApiInts == {Pred(Zero), Zero, One, Pred(Pow2(32)), Pow2(32)}

ApiObjects ==
    {Object(k, b) : k \in {"Integer", "Buffer", "Window", "TabPage"},
                    b \in ApiInts}
      \cup {Object(k, b) : k \in ObjectKind \ (IntKinds \cup {"Nil"}),
                           b \in {Zero, One}}
      \cup {Object("Nil", Zero)}

\* the tuples nvim_buf_get_extmark_by_id returns, well-formed and not
ExtmarkTuples ==
    { <<>>,
      <<IntObj(One)>>,
      <<IntObj(One), IntObj(Zero)>>,
      <<IntObj(One), IntObj(Zero), Object("Dictionary", Zero)>>,
      <<IntObj(One), IntObj(Zero), Object("Dictionary", One)>>,
      <<IntObj(Pred(Zero)), IntObj(Zero)>>,
      <<IntObj(Pow2(32)), IntObj(Zero)>>,
      <<IntObj(One), Object("Boolean", One)>> }

\* the namespace ids nvim_get_namespaces returns
NamespaceIds ==
    { <<>>, <<IntObj(One)>>, <<IntObj(One), IntObj(Pred(Pow2(32)))>>,
      <<IntObj(One), IntObj(Pred(Zero))>> }

\* the Strings nvim_exec and nvim_cmd return, by payload: Zero is the empty
\* text, One a non-empty text, -1 bytes that are not UTF-8
Texts == {Zero, One, Pred(Zero)}

\* the lists nvim_tabpage_list_wins returns
WindowLists ==
    { <<>>, <<Object("Window", One)>>,
      <<Object("Window", One), Object("Window", Pow2(32))>>,
      <<Object("Window", One), Object("String", One)>> }

\* the lists nvim_buf_get_extmarks returns: each element a tuple
Tuple(t) == [obj |-> Object("Array", Zero), items |-> t]
ExtmarkLists ==
    { <<>>,
      <<Tuple(<<IntObj(One), IntObj(Zero), IntObj(Zero)>>)>>,
      <<Tuple(<<IntObj(One), IntObj(Zero), IntObj(Zero),
                Object("Dictionary", Zero)>>)>>,
      <<Tuple(<<IntObj(One), IntObj(Zero), IntObj(Zero),
                Object("Dictionary", One)>>)>>,
      <<Tuple(<<IntObj(One), IntObj(Zero), IntObj(Zero)>>),
        Tuple(<<IntObj(Pred(Zero)), IntObj(Zero), IntObj(Zero)>>)>>,
      <<Tuple(<<IntObj(One), IntObj(Zero)>>)>>,
      <<[obj |-> Object("Nil", Zero), items |-> <<>>]>> }

PayloadsOf(fn) ==
    CASE fn \in {"nvim_eval", "nvim_call_function", "nvim_call_dict_function",
                 "nvim_tabpage_get_var"} ->
             {[obj |-> o, items |-> <<>>] : o \in ApiObjects}
      [] fn \in {"nvim_tabpage_get_number", "nvim_create_namespace"} ->
             {[obj |-> IntObj(n), items |-> <<>>] : n \in ApiInts}
      [] fn = "nvim_tabpage_is_valid" ->
             {[obj |-> Object("Boolean", b), items |-> <<>>] : b \in {Zero, One}}
      [] fn \in {"nvim_parse_cmd", "nvim_parse_expression"} ->
             {[obj |-> Object("Dictionary", b), items |-> <<>>] :
                 b \in {Zero, One}}
      [] fn = "nvim_buf_get_extmark_by_id" ->
             {[obj |-> Object("Array", Zero), items |-> t] : t \in ExtmarkTuples}
      [] fn = "nvim_get_namespaces" ->
             {[obj |-> Object("Dictionary", Zero), items |-> t] :
                 t \in NamespaceIds}
      [] fn \in {"nvim_buf_add_highlight", "nvim_buf_set_extmark",
                 "nvim_tabpage_get_win"} ->
             {[obj |-> IntObj(n), items |-> <<>>] : n \in ApiInts}
      [] fn = "nvim_buf_del_extmark" ->
             {[obj |-> Object("Boolean", b), items |-> <<>>] : b \in {Zero, One}}
      [] fn \in {"nvim_exec", "nvim_cmd"} ->
             {[obj |-> Object("String", b), items |-> <<>>] : b \in Texts}
      [] fn = "nvim_tabpage_list_wins" ->
             {[obj |-> Object("Array", Zero), items |-> t] : t \in WindowLists}
      [] fn = "nvim_buf_get_extmarks" ->
             {[obj |-> Object("Array", Zero), items |-> t] : t \in ExtmarkLists}
      [] OTHER -> {NoPayload}

\* the embedding application runs the function: it may set the slot it was
\* given to a failure, it returns some payload (garbage on failure), and it
\* frees none of its arguments
Foreign ==
    /\ pc = "foreign"
    /\ \E t \in {"None", "Exception", "Validation"} :
          /\ passed.err = 0 => t = "None"
          /\ err' = IF t = "None" THEN err ELSE [err EXCEPT !.type = t]
          /\ slots' = IF t = "None" THEN slots
                      ELSE [slots EXCEPT !.failed = @ \cup {err.id}]
    /\ payload' \in PayloadsOf(passed.fn)
    /\ pc' = "returned"
    /\ UNCHANGED <<frame, heap, passed, trace, result, convVars>>

(***************************************************************************)
(* vimscript.rs                                                            *)
(***************************************************************************)
\* the types the generic wrappers are instantiated at
RetTypes == {"()", "Boolean", "Integer", "u32", "usize", "String", "Array"}

\* the decode of a Dictionary into a struct through the serde bridge: the
\* Dictionary with payload Zero stands for one of the struct's shape
StructTryFrom(obj) ==
    IF obj.kind = "Dictionary" /\ obj.bits = Zero
    THEN DecOk(obj.bits, "none")
    ELSE DecErr([variant |-> "Serde", expected |-> "", actual |-> ""], "none")

\* a call that hands dict itself, not a view of it, to the foreign function
call_dict_function_MovesDict(Ret) ==
    Enter("call_dict_function", Ret, Zero, <<"dict", "func", "args">>,
          ErrorNew, "nvim_call_dict_function",
          {moved(1), non_owning(2), non_owning(3)})

call_dict_function(Ret) ==
    Enter("call_dict_function", Ret, Zero, <<"dict", "func", "args">>,
          ErrorNew, "nvim_call_dict_function",
          {non_owning(1), non_owning(2), non_owning(3)})

call_dict_function_ret ==
    Leave("call_dict_function",
          choose(err, Use(OkOrConversion(
              TryFromObj(frame.ty, ptrBits, payload.obj)))))

call_function(Ret) ==
    Enter("call_function", Ret, Zero, <<"func", "args">>, ErrorNew,
          "nvim_call_function", {non_owning(1), non_owning(2)})

call_function_ret ==
    Leave("call_function",
          choose(err, Use(OkOrConversion(
              TryFromObj(frame.ty, ptrBits, payload.obj)))))

command ==
    Enter("command", "()", Zero, <<"command">>, ErrorNew, "nvim_command",
          {non_owning(1)})

command_ret == Leave("command", choose(err, Unit))

\* output.into_string().map_err(From::from)
\*       .map(|output| (!output.is_empty()).then_some(output))
OutputText(obj) ==
    IF obj.bits = Pred(Zero)
    THEN ErrConversion([variant |-> "FromUtf8", expected |-> "", actual |-> ""])
    ELSE IF obj.bits = Zero THEN Ok(<<>>)
    ELSE Ok(<<obj.bits>>)

cmd ==
    Enter("cmd", "Option<String>", Zero, <<"infos", "opts">>, ErrorNew,
          "nvim_cmd", {non_owning(1), non_owning(2)})

cmd_ret == Leave("cmd", choose(err, Use(OutputText(payload.obj))))

exec ==
    Enter("exec", "Option<String>", Zero, <<"src">>, ErrorNew, "nvim_exec",
          {non_owning(1)})

exec_ret == Leave("exec", choose(err, Use(OutputText(payload.obj))))

eval(V) ==
    Enter("eval", V, Zero, <<"expr">>, ErrorNew, "nvim_eval", {non_owning(1)})

\* an eval that decodes the output before it looks at the slot
eval_ret_DecodesFirst ==
    LET d == TryFromObj(frame.ty, ptrBits, payload.obj)
    IN  Leave("eval",
              IF ~d.ok THEN Use(ErrConversion(d.err))
              ELSE [res |-> choose(err, Use(Ok(<<d.val>>))).res,
                    trace |-> <<"use", "is_err">>])

eval_ret ==
    Leave("eval",
          choose(err, Use(OkOrConversion(
              TryFromObj(frame.ty, ptrBits, payload.obj)))))

parse_cmd ==
    Enter("parse_cmd", "CmdInfos", Zero, <<"src", "opts">>, ErrorNew,
          "nvim_parse_cmd", {non_owning(1), non_owning(2)})

parse_cmd_ret ==
    Leave("parse_cmd",
          choose(err, Use(OkOrConversion(StructTryFrom(payload.obj)))))

parse_expression ==
    Enter("parse_expression", "ParsedVimLExpression", Zero,
          <<"expr", "flags">>, ErrorNew, "nvim_parse_expression",
          {non_owning(1), non_owning(2)})

parse_expression_ret ==
    Leave("parse_expression",
          choose(err, Use(OkOrConversion(StructTryFrom(payload.obj)))))

(***************************************************************************)
(* tabpage.rs                                                              *)
(***************************************************************************)
\* number.try_into().expect("always positive"), into a u32
ExpectU32(n) == IF InRange("u32", 32, n) THEN Ok(<<n>>) ELSE Panic

\* a del_var that keeps the slot of the call before it
del_var_StaleSlot ==
    Enter("del_var", "()", Zero, <<"name">>,
          IF err.id # 0 THEN err ELSE ErrorNew,
          "nvim_tabpage_del_var", {non_owning(1)})

del_var ==
    Enter("del_var", "()", Zero, <<"name">>, ErrorNew,
          "nvim_tabpage_del_var", {non_owning(1)})

del_var_ret == Leave("del_var", choose(err, Unit))

get_number ==
    Enter("get_number", "u32", Zero, <<>>, ErrorNew,
          "nvim_tabpage_get_number", {})

\* a get_number that narrows the number without looking at the slot
get_number_ret_Unchecked ==
    Leave("get_number", Use(ExpectU32(payload.obj.bits)))

get_number_ret ==
    Leave("get_number", choose(err, Use(ExpectU32(payload.obj.bits))))

get_var(Var) ==
    Enter("get_var", Var, Zero, <<"name">>, ErrorNew,
          "nvim_tabpage_get_var", {non_owning(1)})

get_var_ret ==
    Leave("get_var",
          choose(err, Use(OkOrConversion(
              TryFromObj(frame.ty, ptrBits, payload.obj)))))

get_win ==
    Enter("get_win", "Window", Zero, <<>>, ErrorNew, "nvim_tabpage_get_win",
          {})

get_win_ret == Leave("get_win", choose(err, Use(Ok(<<payload.obj.bits>>))))

list_wins ==
    Enter("list_wins", "Window", Zero, <<>>, ErrorNew,
          "nvim_tabpage_list_wins", {})

\* the iterator handed back maps Window::try_from(obj).unwrap() over the
\* list; the result is what its consumer gets
list_wins_ret ==
    Leave("list_wins",
          choose(err, Use(
              IF \A i \in DOMAIN payload.items :
                     try_from_int("i32", ptrBits, payload.items[i]).ok
              THEN Ok([i \in DOMAIN payload.items |-> payload.items[i].bits])
              ELSE Panic)))

is_valid ==
    Enter("is_valid", "bool", Zero, <<>>, NoSlot, "nvim_tabpage_is_valid", {})

is_valid_ret == Leave("is_valid", Use(Ok(<<payload.obj.bits>>)))

\* the values set_var is given, of type Var
SetVarTypes == {"u64", "i128"}
SetVarValues(Var) ==
    {x \in {Pred(Zero), Zero, Pred(Pow2(63)), Pow2(63)} : InRange(Var, 64, x)}

\* value.try_into()? is evaluated among the arguments of the call, after the
\* slot and name are made; the Object it gives lives until the call is over
\* a set_var that makes the call whatever the conversion gave
set_var_CallsAnyway(Var, v) ==
    Enter("set_var", Var, v, <<"name", "value">>, ErrorNew,
          "nvim_tabpage_set_var", {non_owning(1), non_owning(2)})

set_var(Var, v) ==
    LET value == bigint_to_obj(v)
    IN  IF value.ok
        THEN Enter("set_var", Var, v, <<"name", "value">>, ErrorNew,
                   "nvim_tabpage_set_var", {non_owning(1), non_owning(2)})
        ELSE EarlyReturn("set_var", Var, v, <<"name">>, ErrorNew,
                         ErrConversion(value.err))

set_var_ret == Leave("set_var", choose(err, Unit))

(***************************************************************************)
(* extmark.rs                                                              *)
(***************************************************************************)
add_highlight ==
    Enter("add_highlight", "i64", Zero, <<"hl_group">>, ErrorNew,
          "nvim_buf_add_highlight", {non_owning(1)})

add_highlight_ret ==
    Leave("add_highlight", choose(err, Use(Ok(<<payload.obj.bits>>))))

clear_namespace ==
    Enter("clear_namespace", "()", Zero, <<>>, ErrorNew,
          "nvim_buf_clear_namespace", {})

clear_namespace_ret == Leave("clear_namespace", choose(err, Unit))

\* the extmark ids del_extmark is given
ExtmarkIds == {One, Pred(Pow2(32))}

del_extmark(extmark_id) ==
    Enter("del_extmark", "()", extmark_id, <<>>, ErrorNew,
          "nvim_buf_del_extmark", {})

\* format!("No extmark with id {extmark_id} was found")
NoExtmarkFound(extmark_id) ==
    [ErrCustom EXCEPT
        !.msg = <<"No extmark with id ", extmark_id, " was found">>]

\* a del_extmark that looks at was_found before it looks at the slot
del_extmark_ret_FoundFirst ==
    Leave("del_extmark",
          IF payload.obj.bits # Zero THEN choose(err, Unit)
          ELSE Use(NoExtmarkFound(frame.val)))

\* choose!(err, match was_found { true => Ok(()), _ => Err(custom) })
del_extmark_ret ==
    Leave("del_extmark",
          choose(err, Use(IF payload.obj.bits # Zero THEN Ok(<<>>)
                          ELSE NoExtmarkFound(frame.val))))

get_extmark_by_id ==
    Enter("get_extmark_by_id", "(usize, usize, Option<ExtmarkInfos>)", Zero,
          <<"opts">>, ErrorNew, "nvim_buf_get_extmark_by_id", {non_owning(1)})

\* the block given to choose! in get_extmark_by_id
ExtmarkTupleDecode(tuple, p) ==
    IF Len(tuple) = 0 THEN ErrCustom
    ELSE LET row == try_from_int("usize", p, tuple[1])
         IN  IF ~row.ok THEN ErrConversion(row.err)
             ELSE IF Len(tuple) < 2 THEN Panic
             ELSE LET col == try_from_int("usize", p, tuple[2])
                  IN  IF ~col.ok THEN ErrConversion(col.err)
                      ELSE IF Len(tuple) < 3 THEN Ok(<<row.val, col.val>>)
                      ELSE LET infos == StructTryFrom(tuple[3])
                           IN  IF ~infos.ok THEN ErrConversion(infos.err)
                               ELSE Ok(<<row.val, col.val, infos.val>>)

get_extmark_by_id_ret ==
    Leave("get_extmark_by_id",
          choose(err, Use(ExtmarkTupleDecode(payload.items, ptrBits))))

get_extmarks ==
    Enter("get_extmarks", "(u32, usize, usize, Option<ExtmarkInfos>)", Zero,
          <<"opts">>, ErrorNew, "nvim_buf_get_extmarks", {non_owning(1)})

\* the closure mapped over the extmarks: every step is unwrapped
ExtmarksTupleOk(t, p) ==
    /\ ArrayTryFrom(t.obj).ok
    /\ Len(t.items) >= 3
    /\ try_from_int("u32", p, t.items[1]).ok
    /\ try_from_int("usize", p, t.items[2]).ok
    /\ try_from_int("usize", p, t.items[3]).ok
    /\ Len(t.items) >= 4 => StructTryFrom(t.items[4]).ok

\* the iterator handed back maps the closure over the list; the result is
\* what its consumer gets
get_extmarks_ret ==
    Leave("get_extmarks",
          choose(err, Use(
              IF \A i \in DOMAIN payload.items :
                     ExtmarksTupleOk(payload.items[i], ptrBits)
              THEN Ok([i \in DOMAIN payload.items |->
                          payload.items[i].items[1].bits])
              ELSE Panic)))

set_extmark ==
    Enter("set_extmark", "u32", Zero, <<>>, ErrorNew, "nvim_buf_set_extmark",
          {})

set_extmark_ret ==
    Leave("set_extmark", choose(err, Use(ExpectU32(payload.obj.bits))))

set_decoration_provider ==
    Enter("set_decoration_provider", "()", Zero, <<"opts">>, ErrorNew,
          "nvim_set_decoration_provider", {non_owning(1)})

set_decoration_provider_ret ==
    Leave("set_decoration_provider", choose(err, Unit))

create_namespace ==
    Enter("create_namespace", "u32", Zero, <<"name">>, NoSlot,
          "nvim_create_namespace", {non_owning(1)})

create_namespace_ret ==
    Leave("create_namespace", Use(ExpectU32(payload.obj.bits)))

get_namespaces ==
    Enter("get_namespaces", "(String, u32)", Zero, <<>>, NoSlot,
          "nvim_get_namespaces", {})

\* the map over the pairs: u32::try_from(v).expect(..) on every id
get_namespaces_ret ==
    Leave("get_namespaces",
          Use(IF \A i \in DOMAIN payload.items :
                    try_from_int("u32", ptrBits, payload.items[i]).ok
              THEN Ok([i \in DOMAIN payload.items |-> payload.items[i].bits])
              ELSE Panic))

(***************************************************************************)
(* TabPage: a handle wrapping a TabHandle, and its conversions.            *)
(***************************************************************************)
\* the integer type behind TabHandle
TabHandle == "i32"

\* struct TabPage(TabHandle)
TabPage(handle) == [handle |-> handle]

\* a TabPage decode that takes the integer as it is, whatever its size
TabPageTryFrom_Unchecked(p, obj) ==
    LET d == IntegerTryFrom(obj)
    IN  IF d.ok THEN [d EXCEPT !.val = TabPage(d.val)] ELSE d

\* impl TryFrom<Object> for TabPage
TabPageTryFrom(p, obj) ==
    LET d == try_from_int(TabHandle, p, obj)
    IN  IF d.ok THEN [d EXCEPT !.val = TabPage(d.val)] ELSE d

\* a TabPage encode that tags the Object as a handle
ObjectFromTabPage_Tagged(tabpage) == Object("TabPage", tabpage.handle)

\* impl From<TabPage> for Object: tabpage.0.into(), the conversion of the
\* integer behind the handle
ObjectFromTabPage(tabpage) == ObjectFromInteger(tabpage.handle)

(***************************************************************************)
(* Vec<T> to Object, for a T that converts as the big integers do.         *)
(***************************************************************************)
NoVec == [ok |-> FALSE, obj |-> NoObject, items |-> <<>>, err |-> NoError,
          encoded |-> 0, failedAt |-> 0]

\* collect::<Result<Array, Error>>() over the mapped items, from item i on:
\* acc holds the objects collected so far
RECURSIVE Collect(_, _, _)
Collect(items, i, acc) ==
    IF i > Len(items)
    THEN [NoVec EXCEPT !.ok = TRUE, !.items = acc, !.encoded = Len(items)]
    ELSE LET e == bigint_to_obj(items[i])
         IN  IF e.ok
             THEN Collect(items, i + 1, Append(acc, e.obj))
             ELSE [NoVec EXCEPT !.err = e.err, !.encoded = i, !.failedAt = i]

\* a vector encode that leaves the failing items out
VecTryInto_Lossy(items) ==
    LET all  == [i \in DOMAIN items |-> bigint_to_obj(items[i])]
        good == SelectSeq(all, LAMBDA e : e.ok)
    IN  [NoVec EXCEPT !.ok = TRUE, !.obj = Object("Array", Zero),
                      !.items = [i \in DOMAIN good |-> good[i].obj],
                      !.encoded = Len(items)]

\* impl TryFrom<Vec<T>> for Object
VecTryInto(items) ==
    LET c == Collect(items, 1, <<>>)
    IN  IF c.ok THEN [c EXCEPT !.obj = Object("Array", Zero)] ELSE c

(***************************************************************************)
(* The structural bridge: Objects with their text, the enums and structs   *)
(* that derive Serialize/Deserialize, and the drivers that walk them.      *)
(* A text is the sequence of its characters.                               *)
(***************************************************************************)
\* an Object together with the text of a String
BObject(kind, bits, text) == [kind |-> kind, bits |-> bits, text |-> text]
Text(chars)  == BObject("String", Zero, chars)
Plain(obj)   == BObject(obj.kind, obj.bits, <<>>)
NoBObject    == Plain(NoObject)

\* conversion::Error::Serde: what the bridge reports, and the field it names
Serde(what, field) ==
    [variant |-> "Serde", expected |-> what, actual |-> field]

\* char::to_ascii_lowercase on the upper case letters
LowerOf ==
    [A |-> "a", B |-> "b", C |-> "c", D |-> "d", E |-> "e", F |-> "f", G |-> "g",
     H |-> "h", I |-> "i", J |-> "j", K |-> "k", L |-> "l", M |-> "m", N |-> "n",
     O |-> "o", P |-> "p", Q |-> "q", R |-> "r", S |-> "s", T |-> "t", U |-> "u",
     V |-> "v", W |-> "w", X |-> "x", Y |-> "y", Z |-> "z"]

is_uppercase(ch) == ch \in DOMAIN LowerOf
to_ascii_lowercase(ch) == IF is_uppercase(ch) THEN LowerOf[ch] ELSE ch

\* rename_all = "snake_case" applied to a variant identifier: an underscore
\* before every upper case letter but the first, every letter lower case
RECURSIVE SnakeCase(_, _)
SnakeCase(ident, i) ==
    IF i > Len(ident) THEN <<>>
    ELSE (IF i > 1 /\ is_uppercase(ident[i]) THEN <<"_">> ELSE <<>>)
           \o <<to_ascii_lowercase(ident[i])>> \o SnakeCase(ident, i + 1)

\* CommandAddr without its rename_all attribute
CommandAddr_NoRenameAll ==
    [rename_all |-> "none",
     variants |-> <<
       [ident |-> <<"L", "i", "n", "e", "s">>,
         rename |-> <<>>],
       [ident |-> <<"A", "r", "g", "u", "m", "e", "n", "t", "s">>,
         rename |-> <<>>],
       [ident |-> <<"B", "u", "f", "f", "e", "r", "s">>,
         rename |-> <<>>],
       [ident |-> <<"L", "o", "a", "d", "e", "d", "B", "u", "f", "f", "e", "r", "s">>,
         rename |-> <<>>],
       [ident |-> <<"W", "i", "n", "d", "o", "w", "s">>,
         rename |-> <<>>],
       [ident |-> <<"T", "a", "b", "s">>,
         rename |-> <<>>],
       [ident |-> <<"Q", "u", "i", "c", "k", "f", "i", "x">>,
         rename |-> <<>>],
       [ident |-> <<"O", "t", "h", "e", "r">>,
         rename |-> <<>>] >>]

\* enum CommandAddr, #[serde(rename_all = "snake_case")]
CommandAddr ==
    [rename_all |-> "snake_case",
     variants |-> <<
       [ident |-> <<"L", "i", "n", "e", "s">>,
         rename |-> <<>>],
       [ident |-> <<"A", "r", "g", "u", "m", "e", "n", "t", "s">>,
         rename |-> <<>>],
       [ident |-> <<"B", "u", "f", "f", "e", "r", "s">>,
         rename |-> <<>>],
       [ident |-> <<"L", "o", "a", "d", "e", "d", "B", "u", "f", "f", "e", "r", "s">>,
         rename |-> <<>>],
       [ident |-> <<"W", "i", "n", "d", "o", "w", "s">>,
         rename |-> <<>>],
       [ident |-> <<"T", "a", "b", "s">>,
         rename |-> <<>>],
       [ident |-> <<"Q", "u", "i", "c", "k", "f", "i", "x">>,
         rename |-> <<>>],
       [ident |-> <<"O", "t", "h", "e", "r">>,
         rename |-> <<>>] >>]

\* enum CommandNArgs, every variant with its #[serde(rename = ..)]
CommandNArgs ==
    [rename_all |-> "none",
     variants |-> <<
       [ident |-> <<"Z", "e", "r", "o">>,
         rename |-> <<"0">>],
       [ident |-> <<"O", "n", "e">>,
         rename |-> <<"1">>],
       [ident |-> <<"Z", "e", "r", "o", "O", "r", "O", "n", "e">>,
         rename |-> <<"?">>],
       [ident |-> <<"O", "n", "e", "O", "r", "M", "o", "r", "e">>,
         rename |-> <<"+">>],
       [ident |-> <<"A", "n", "y">>,
         rename |-> <<"*">>] >>]

\* enum CommandComplete, its unit variants; Serialize only
CommandComplete ==
    [rename_all |-> "snake_case",
     variants |-> <<
       [ident |-> <<"A", "r", "g", "l", "i", "s", "t">>,
         rename |-> <<>>],
       [ident |-> <<"A", "u", "g", "r", "o", "u", "p">>,
         rename |-> <<>>],
       [ident |-> <<"B", "u", "f", "f", "e", "r">>,
         rename |-> <<>>],
       [ident |-> <<"B", "e", "h", "a", "v", "e">>,
         rename |-> <<>>],
       [ident |-> <<"C", "o", "l", "o", "r">>,
         rename |-> <<>>],
       [ident |-> <<"C", "o", "m", "m", "a", "n", "d">>,
         rename |-> <<>>],
       [ident |-> <<"C", "o", "m", "p", "i", "l", "e", "r">>,
         rename |-> <<>>],
       [ident |-> <<"C", "s", "c", "o", "p", "e">>,
         rename |-> <<>>],
       [ident |-> <<"D", "i", "r">>,
         rename |-> <<>>],
       [ident |-> <<"E", "n", "v", "i", "r", "o", "n", "m", "e", "n", "t">>,
         rename |-> <<>>],
       [ident |-> <<"E", "v", "e", "n", "t">>,
         rename |-> <<>>],
       [ident |-> <<"E", "x", "p", "r", "e", "s", "s", "i", "o", "n">>,
         rename |-> <<>>],
       [ident |-> <<"F", "i", "l", "e">>,
         rename |-> <<>>],
       [ident |-> <<"F", "i", "l", "e", "I", "n", "P", "a", "t", "h">>,
         rename |-> <<>>],
       [ident |-> <<"F", "i", "l", "e", "t", "y", "p", "e">>,
         rename |-> <<>>],
       [ident |-> <<"F", "u", "n", "c", "t", "i", "o", "n">>,
         rename |-> <<>>],
       [ident |-> <<"H", "e", "l", "p">>,
         rename |-> <<>>],
       [ident |-> <<"H", "i", "g", "h", "l", "i", "g", "h", "t">>,
         rename |-> <<>>],
       [ident |-> <<"H", "i", "s", "t", "o", "r", "y">>,
         rename |-> <<>>],
       [ident |-> <<"L", "o", "c", "a", "l", "e">>,
         rename |-> <<>>],
       [ident |-> <<"L", "u", "a">>,
         rename |-> <<>>],
       [ident |-> <<"M", "a", "p", "c", "l", "e", "a", "r">>,
         rename |-> <<>>],
       [ident |-> <<"M", "a", "p", "p", "i", "n", "g">>,
         rename |-> <<>>],
       [ident |-> <<"M", "e", "n", "u">>,
         rename |-> <<>>],
       [ident |-> <<"M", "e", "s", "s", "a", "g", "e", "s">>,
         rename |-> <<>>],
       [ident |-> <<"O", "p", "t", "i", "o", "n">>,
         rename |-> <<>>],
       [ident |-> <<"P", "a", "c", "k", "a", "d", "d">>,
         rename |-> <<>>],
       [ident |-> <<"S", "h", "e", "l", "l", "c", "m", "d">>,
         rename |-> <<>>],
       [ident |-> <<"S", "i", "g", "n">>,
         rename |-> <<>>],
       [ident |-> <<"S", "y", "n", "t", "a", "x">>,
         rename |-> <<>>],
       [ident |-> <<"S", "y", "n", "t", "i", "m", "e">>,
         rename |-> <<>>],
       [ident |-> <<"T", "a", "g">>,
         rename |-> <<>>],
       [ident |-> <<"T", "a", "g", "L", "i", "s", "t", "f", "i", "l", "e", "s">>,
         rename |-> <<>>],
       [ident |-> <<"U", "s", "e", "r">>,
         rename |-> <<>>],
       [ident |-> <<"V", "a", "r">>,
         rename |-> <<>>] >>]

Enums == [CommandAddr |-> CommandAddr, CommandNArgs |-> CommandNArgs,
          CommandComplete |-> CommandComplete]
\* the enums that derive Deserialize
DecodableEnums == {"CommandAddr", "CommandNArgs"}

\* the name serde gives variant i of enum E
VariantName(E, i) ==
    LET v == E.variants[i]
    IN  IF v.rename # <<>> THEN v.rename
        ELSE IF E.rename_all = "snake_case" THEN SnakeCase(v.ident, 1)
        ELSE v.ident

\* Serializer::serialize_unit_variant: the variant's name as a String
serialize_unit_variant(E, i) == EncOk(Text(VariantName(E, i)))

\* Deserializer::deserialize_enum with the derived visitor of a unit-only
\* enum: a String naming a variant, anything else is an error
EnumDeserialize(E, obj) ==
    IF obj.kind # "String"
    THEN DecErr(Serde("invalid type", ""), "none")
    ELSE LET hits == {i \in DOMAIN E.variants : VariantName(E, i) = obj.text}
         IN  IF hits = {}
             THEN DecErr(Serde("unknown variant", ""), "as_string_unchecked")
             ELSE DecOk(CHOOSE i \in hits : \A j \in hits : i <= j,
                        "as_string_unchecked")

\* Option<T> as a value
None    == [some |-> FALSE, v |-> Zero]
Some(v) == [some |-> TRUE, v |-> v]

\* <u32 as FromStr>::from_str, radix 10
Digits == <<"0", "1", "2", "3", "4", "5", "6", "7", "8", "9">>
is_digit(ch) == \E i \in DOMAIN Digits : Digits[i] = ch
to_digit(ch) == (CHOOSE i \in DOMAIN Digits : Digits[i] = ch) - 1

\* the carry into limb i of m * k + c
RECURSIVE Carry(_, _, _, _)
Carry(m, k, c, i) ==
    IF i = 1 THEN c
    ELSE (m[i - 1] * k + Carry(m, k, c, i - 1)) \div LimbBase

\* x * k + c for a non-negative x and small k, c
MulAdd(x, k, c) ==
    Big(FALSE, [i \in Limbs |-> (x.mag[i] * k + Carry(x.mag, k, c, i))
                                   % LimbBase])

\* the digits from position i on, accumulated with checked_mul and
\* checked_add
RECURSIVE Accumulate(_, _, _)
Accumulate(digits, i, acc) ==
    IF i > Len(digits) THEN DecOk(acc, "none")
    ELSE IF ~is_digit(digits[i])
    THEN DecErr(Serde("custom", "invalid digit found in string"), "none")
    ELSE LET next == MulAdd(acc, 10, to_digit(digits[i]))
         IN  IF ~InRange("u32", 32, next)
             THEN DecErr(Serde("custom",
                               "number too large to fit in target type"),
                         "none")
             ELSE Accumulate(digits, i + 1, next)

\* count.parse::<u32>(): an optional "+", then one or more digits
u32_from_str(src) ==
    IF src = <<>>
    THEN DecErr(Serde("custom", "cannot parse integer from empty string"),
                "none")
    ELSE IF src \in {<<"+">>, <<"-">>}
    THEN DecErr(Serde("custom", "invalid digit found in string"), "none")
    ELSE Accumulate(IF src[1] = "+" THEN Tail(src) ELSE src, 1, Zero)

\* the types this model does not look into, and the kind of Object each is
\* decoded from
OpaqueKind ==
    [ExtmarkHlMode |-> "String", ExtmarkVirtTextPosition |-> "String",
     Mode |-> "String", CommandRange |-> "String", Vec |-> "Array",
     Function |-> "LuaRef"]

\* T::deserialize(Deserializer::new(obj)) for the type T of a field
Deserialize(T, p, obj) ==
    CASE T = "bool" ->
             IF obj.kind = "Boolean"
             THEN DecOk(obj.bits # Zero, "as_boolean_unchecked")
             ELSE DecErr(Serde("invalid type", ""), "none")
      [] T \in IntTypes ->
             IF obj.kind \notin IntKinds
             THEN DecErr(Serde("invalid type", ""), "none")
             ELSE IF InRange(T, p, obj.bits)
             THEN DecOk(obj.bits, "as_integer_unchecked")
             ELSE DecErr(Serde("invalid value", ""), "as_integer_unchecked")
      [] T = "String" ->
             IF obj.kind = "String"
             THEN DecOk(obj.text, "as_string_unchecked")
             ELSE DecErr(Serde("invalid type", ""), "none")
      [] T \in DOMAIN Enums -> EnumDeserialize(Enums[T], obj)
      [] T \in DOMAIN OpaqueKind ->
             IF obj.kind = OpaqueKind[T] /\ obj.bits = Zero
             THEN DecOk(obj.text, "opaque")
             ELSE DecErr(Serde("invalid type", ""), "none")

\* Option::<T>::deserialize: deserialize_option gives None for Nil and hands
\* every other Object to T
OptionDeserialize(T, p, obj) ==
    IF obj.kind = "Nil" THEN DecOk(None, "none")
    ELSE LET d == Deserialize(T, p, obj)
         IN  IF d.ok THEN [d EXCEPT !.val = Some(d.val)] ELSE d

\* a parse_count that gives None for a text that does not parse
parse_count_Lenient(p, obj) ==
    LET count == OptionDeserialize("String", p, obj)
    IN  IF ~count.ok \/ ~count.val.some THEN count
        ELSE LET n == u32_from_str(count.val.v)
             IN  IF n.ok THEN DecOk(Some(n.val), count.accessor)
                 ELSE DecOk(None, count.accessor)

\* fn parse_count: Option::<String>::deserialize(deserializer)?
\*     .map(|count| count.parse().map_err(..custom..)).transpose()
parse_count(p, obj) ==
    LET count == OptionDeserialize("String", p, obj)
    IN  IF ~count.ok \/ ~count.val.some THEN count
        ELSE LET n == u32_from_str(count.val.v)
             IN  IF n.ok THEN DecOk(Some(n.val), count.accessor)
                 ELSE DecErr(n.err, count.accessor)

\* a field of a struct: its key, the type inside the Option if it is one,
\* whether it carries #[serde(default)], and its deserialize_with function
Field(name, ty, option, default, with) ==
    [name |-> name, ty |-> ty, option |-> option, default |-> default,
     with |-> with]

\* struct ProcInfos with pid: u32 in place of Option<u32>
ProcInfos_PidRequired ==
    << Field("name", "String", TRUE, FALSE, ""),
       Field("pid", "u32", FALSE, FALSE, ""),
       Field("ppid", "u32", TRUE, FALSE, "") >>

\* struct ProcInfos, its fields in declaration order
ProcInfos ==
    << Field("name", "String", TRUE, FALSE, ""),
       Field("pid", "u32", TRUE, FALSE, ""),
       Field("ppid", "u32", TRUE, FALSE, "") >>

\* struct HighlightInfos, its fields in declaration order
HighlightInfos ==
    << Field("background", "u32", TRUE, FALSE, ""),
       Field("bg_indexed", "bool", TRUE, FALSE, ""),
       Field("blend", "u32", TRUE, FALSE, ""),
       Field("bold", "bool", TRUE, FALSE, ""),
       Field("fg_indexed", "bool", TRUE, FALSE, ""),
       Field("foreground", "u32", TRUE, FALSE, ""),
       Field("italic", "bool", TRUE, FALSE, ""),
       Field("reverse", "bool", TRUE, FALSE, ""),
       Field("special", "u32", TRUE, FALSE, ""),
       Field("standout", "bool", TRUE, FALSE, ""),
       Field("strikethrough", "bool", TRUE, FALSE, ""),
       Field("undercurl", "bool", TRUE, FALSE, ""),
       Field("underdash", "bool", TRUE, FALSE, ""),
       Field("underdot", "bool", TRUE, FALSE, ""),
       Field("underline", "bool", TRUE, FALSE, ""),
       Field("underlineline", "bool", TRUE, FALSE, "") >>

\* struct ExtmarkInfos with #[serde(default)] on right_gravity too
ExtmarkInfos_AllDefault ==
    << Field("end_col", "usize", TRUE, TRUE, ""),
       Field("end_right_gravity", "bool", TRUE, TRUE, ""),
       Field("end_row", "usize", TRUE, TRUE, ""),
       Field("hl_eol", "bool", TRUE, TRUE, ""),
       Field("hl_group", "String", TRUE, TRUE, ""),
       Field("hl_mode", "ExtmarkHlMode", TRUE, TRUE, ""),
       Field("priority", "u32", TRUE, TRUE, ""),
       Field("right_gravity", "bool", FALSE, TRUE, ""),
       Field("ui_watched", "bool", TRUE, TRUE, ""),
       Field("virt_lines", "Vec", TRUE, TRUE, ""),
       Field("virt_lines_above", "bool", TRUE, TRUE, ""),
       Field("virt_lines_leftcol", "bool", TRUE, TRUE, ""),
       Field("virt_text", "Vec", TRUE, TRUE, ""),
       Field("virt_text_hide", "bool", TRUE, TRUE, ""),
       Field("virt_text_pos", "ExtmarkVirtTextPosition", TRUE, TRUE, ""),
       Field("virt_text_win_col", "i64", TRUE, TRUE, "") >>

\* struct ExtmarkInfos, its fields in declaration order
ExtmarkInfos ==
    << Field("end_col", "usize", TRUE, TRUE, ""),
       Field("end_right_gravity", "bool", TRUE, TRUE, ""),
       Field("end_row", "usize", TRUE, TRUE, ""),
       Field("hl_eol", "bool", TRUE, TRUE, ""),
       Field("hl_group", "String", TRUE, TRUE, ""),
       Field("hl_mode", "ExtmarkHlMode", TRUE, TRUE, ""),
       Field("priority", "u32", TRUE, TRUE, ""),
       Field("right_gravity", "bool", FALSE, FALSE, ""),
       Field("ui_watched", "bool", TRUE, TRUE, ""),
       Field("virt_lines", "Vec", TRUE, TRUE, ""),
       Field("virt_lines_above", "bool", TRUE, TRUE, ""),
       Field("virt_lines_leftcol", "bool", TRUE, TRUE, ""),
       Field("virt_text", "Vec", TRUE, TRUE, ""),
       Field("virt_text_hide", "bool", TRUE, TRUE, ""),
       Field("virt_text_pos", "ExtmarkVirtTextPosition", TRUE, TRUE, ""),
       Field("virt_text_win_col", "i64", TRUE, TRUE, "") >>

\* struct GotMode, its fields in declaration order
GotMode ==
    << Field("blocking", "bool", FALSE, FALSE, ""),
       Field("mode", "Mode", FALSE, FALSE, "") >>

\* struct CommandInfos, its fields in declaration order
CommandInfos ==
    << Field("addr", "CommandAddr", TRUE, FALSE, ""),
       Field("bang", "bool", FALSE, FALSE, ""),
       Field("bar", "bool", FALSE, FALSE, ""),
       Field("callback", "Function", TRUE, FALSE, ""),
       Field("complete", "String", TRUE, FALSE, ""),
       Field("complete_arg", "String", TRUE, FALSE, ""),
       Field("count", "u32", TRUE, FALSE, "parse_count"),
       Field("definition", "String", TRUE, FALSE, ""),
       Field("keepscript", "bool", FALSE, FALSE, ""),
       Field("name", "String", FALSE, FALSE, ""),
       Field("nargs", "CommandNArgs", FALSE, TRUE, ""),
       Field("range", "CommandRange", TRUE, FALSE, ""),
       Field("register", "bool", FALSE, FALSE, ""),
       Field("script_id", "i32", FALSE, FALSE, "") >>

Structs == [ProcInfos |-> ProcInfos, HighlightInfos |-> HighlightInfos,
            ExtmarkInfos |-> ExtmarkInfos, GotMode |-> GotMode,
            CommandInfos |-> CommandInfos]

\* Default::default() of the type of a field marked default: None for an
\* Option, the #[default] variant Zero for CommandNArgs
DefaultOf(f) == IF f.option THEN None ELSE 1

\* the value of a field from the Object at its key
FieldDeserialize(f, p, obj) ==
    IF f.with = "parse_count" THEN parse_count(p, obj)
    ELSE IF f.option THEN OptionDeserialize(f.ty, p, obj)
    ELSE Deserialize(f.ty, p, obj)

\* the value of a field whose key the map does not have: its default if it
\* is marked default, None for an Option decoded by the generic driver, and
\* otherwise the error that names the field
MissingField(f) ==
    IF f.default THEN DecOk(DefaultOf(f), "none")
    ELSE IF f.option /\ f.with = "" THEN DecOk(None, "none")
    ELSE DecErr(Serde("missing field", f.name), "none")

\* the derived visit_map from entry i on; got maps the fields already
\* seen to their values.  A key that names no field is skipped, a key seen
\* twice is an error, the first value that fails ends the decode.
RECURSIVE VisitMap(_, _, _, _, _)
VisitMap(fields, p, entries, i, got) ==
    IF i > Len(entries)
    THEN LET missing == {j \in DOMAIN fields :
                            j \notin DOMAIN got /\ ~MissingField(fields[j]).ok}
         IN  IF missing # {}
             THEN MissingField(
                      fields[CHOOSE j \in missing : \A k \in missing : j <= k])
             ELSE DecOk([j \in DOMAIN fields |->
                            IF j \in DOMAIN got THEN got[j]
                            ELSE MissingField(fields[j]).val],
                        "as_dictionary_unchecked")
    ELSE LET named == {j \in DOMAIN fields : fields[j].name = entries[i].key}
         IN  IF named = {} THEN VisitMap(fields, p, entries, i + 1, got)
             ELSE LET j == CHOOSE j \in named : TRUE
                      d == FieldDeserialize(fields[j], p, entries[i].value)
                  IN  IF j \in DOMAIN got
                      THEN DecErr(Serde("duplicate field", fields[j].name),
                                  "as_dictionary_unchecked")
                      ELSE IF ~d.ok THEN d
                      ELSE VisitMap(fields, p, entries, i + 1,
                                    got @@ (j :> d.val))

\* T::deserialize(Deserializer::new(obj)) for a struct T and a Dictionary
\* with the given entries
StructDeserialize(fields, p, entries) ==
    VisitMap(fields, p, entries, 1, <<>>)

(***************************************************************************)
(* ConvSpec: the conversions applied to bounded inputs.                    *)
(***************************************************************************)
ConvObjects ==
    {Object(k, b) : k \in IntKinds, b \in I64Values}
      \cup {Object(k, b) : k \in ObjectKind \ (IntKinds \cup {"Nil"}),
                           b \in {Zero, One}}
      \cup {Object("Nil", Zero)}

NoConv == [op |-> "none", ty |-> "()", obj |-> NoObject, val |-> Zero,
           done |-> FALSE, dec |-> NoDec, enc |-> NoEnc,
           items |-> <<>>, vec |-> NoVec,
           shape |-> "", entries |-> <<>>, variant |-> 0,
           text |-> EncErr(NoError), out |-> NoDec]

\* the items of the vectors converted
VecValues == {Zero, Pred(Pow2(63)), Pow2(63)}

RECURSIVE Vecs(_)
Vecs(n) ==
    IF n = 0 THEN {<<>>}
    ELSE Vecs(n - 1)
           \cup {Append(v, x) : v \in {w \in Vecs(n - 1) : Len(w) = n - 1},
                                x \in VecValues}

\* the conversions to apply, each with its input
ConvInputs(p) ==
    {[NoConv EXCEPT !.op = "decode", !.ty = T, !.obj = obj] :
        T \in Targets, obj \in ConvObjects}
      \cup UNION {{[NoConv EXCEPT !.op = o, !.ty = T, !.val = v] :
                      o \in {"encode", "roundtrip"}, v \in ValuesOf(T, p)} :
                  T \in BigTypes}
      \cup {[NoConv EXCEPT !.op = "tabpage_decode", !.ty = "TabPage",
                           !.obj = obj] : obj \in ConvObjects}
      \cup {[NoConv EXCEPT !.op = "tabpage_roundtrip", !.ty = "TabPage",
                           !.val = v] : v \in ValuesOf(TabHandle, p)}
      \cup {[NoConv EXCEPT !.op = "vec", !.ty = "u64", !.items = v] :
               v \in Vecs(MaxVecLen)}

\* T::try_from(obj)
Decode ==
    /\ conv.op = "decode" /\ ~conv.done
    /\ conv' = [conv EXCEPT !.done = TRUE,
                            !.dec = TryFromObj(conv.ty, ptrBits, conv.obj)]
    /\ UNCHANGED <<ptrBits, apiVars>>

\* Object::try_from(v) for a v of a big integer type
Encode ==
    /\ conv.op = "encode" /\ ~conv.done
    /\ conv' = [conv EXCEPT !.done = TRUE, !.enc = bigint_to_obj(conv.val)]
    /\ UNCHANGED <<ptrBits, apiVars>>

\* T::try_from(Object::try_from(v)?)
RoundTrip ==
    LET e == bigint_to_obj(conv.val)
    IN  /\ conv.op = "roundtrip" /\ ~conv.done
        /\ conv' = [conv EXCEPT !.done = TRUE, !.enc = e, !.obj = e.obj,
                                !.dec = IF e.ok
                                        THEN TryFromObj(conv.ty, ptrBits, e.obj)
                                        ELSE NoDec]
        /\ UNCHANGED <<ptrBits, apiVars>>

\* TabPage::try_from(obj)
TabPageDecode ==
    /\ conv.op = "tabpage_decode" /\ ~conv.done
    /\ conv' = [conv EXCEPT !.done = TRUE,
                            !.dec = TabPageTryFrom(ptrBits, conv.obj)]
    /\ UNCHANGED <<ptrBits, apiVars>>

\* TabPage::try_from(Object::from(tabpage))
TabPageRoundTrip ==
    LET obj == ObjectFromTabPage(TabPage(conv.val))
    IN  /\ conv.op = "tabpage_roundtrip" /\ ~conv.done
        /\ conv' = [conv EXCEPT !.done = TRUE, !.enc = EncOk(obj),
                                !.obj = obj,
                                !.dec = TabPageTryFrom(ptrBits, obj)]
        /\ UNCHANGED <<ptrBits, apiVars>>

\* Object::try_from(items) for a vector
VecEncode ==
    /\ conv.op = "vec" /\ ~conv.done
    /\ conv' = [conv EXCEPT !.done = TRUE, !.vec = VecTryInto(conv.items)]
    /\ UNCHANGED <<ptrBits, apiVars>>

ApiIdle ==
    /\ pc = "idle"
    /\ frame = [op |-> "none", ty |-> "()", val |-> Zero]
    /\ err = NoSlot
    /\ heap = <<>>
    /\ passed = [fn |-> "none", args |-> {}, err |-> 0]
    /\ payload = NoPayload
    /\ trace = <<>>
    /\ result = NoResult
    /\ slots = [next |-> 1, failed |-> {}]

ConvInit ==
    /\ ptrBits \in {32, 64}
    /\ conv \in ConvInputs(ptrBits)
    /\ ApiIdle

ConvNext ==
    \/ Decode \/ Encode \/ RoundTrip
    \/ TabPageDecode \/ TabPageRoundTrip
    \/ VecEncode

ConvSpec == ConvInit /\ [][ConvNext]_vars

(***************************************************************************)
(* BridgeSpec: the bridge applied to bounded inputs.                       *)
(***************************************************************************)
Seven == MulAdd(Zero, 10, 7)

\* the texts given as values
CountTexts ==
    { <<>>,
      <<"0">>,
      <<"7">>,
      <<"0", "0", "7">>,
      <<"+", "7">>,
      <<"-", "1">>,
      <<"a", "b", "c">>,
      <<"1", "2", "a">>,
      <<"4", "2", "9", "4", "9", "6", "7", "2", "9", "5">>,
      <<"4", "2", "9", "4", "9", "6", "7", "2", "9", "6">>,
      <<"+">>,
      <<" ", "7">> }

FieldValues ==
    {Plain(o) : o \in {Object("Nil", Zero), Object("Boolean", Zero),
                       Object("Boolean", One), IntObj(Seven),
                       IntObj(Pred(Zero)), IntObj(Pow2(32)),
                       Object("Window", Seven), Object("Float", Zero),
                       Object("Array", Zero), Object("Dictionary", Zero),
                       Object("LuaRef", Zero)}}
      \cup {Text(t) : t \in CountTexts \cup {<<"l", "i", "n", "e", "s">>, <<"?">>}}

\* a value the field accepts
GoodValue(f) ==
    CASE f.with = "parse_count" -> Text(<<"7">>)
      [] f.ty = "bool"          -> Plain(Object("Boolean", One))
      [] f.ty \in IntTypes      -> Plain(IntObj(Seven))
      [] f.ty = "String"        -> Text(<<"a", "b", "c">>)
      [] f.ty = "CommandAddr"   -> Text(<<"t", "a", "b", "s">>)
      [] f.ty = "CommandNArgs"  -> Text(<<"*">>)
      [] OTHER                  -> BObject(OpaqueKind[f.ty], Zero, <<>>)

Entry(key, value) == [key |-> key, value |-> value]

\* the map with every key of the struct, and the maps one edit away from it
BaseEntries(fields) ==
    [j \in DOMAIN fields |-> Entry(fields[j].name, GoodValue(fields[j]))]

Remove(entries, j) ==
    SubSeq(entries, 1, j - 1) \o SubSeq(entries, j + 1, Len(entries))

Edited(fields) ==
    LET base == BaseEntries(fields)
    IN  {base}
          \cup {[base EXCEPT ![j].value = v] :
                   j \in DOMAIN base, v \in FieldValues}
          \cup {Remove(base, j) : j \in DOMAIN base}

\* a key that names no field of any struct
UnknownKey == "unknown_key"

WithUnknownKey(entries) ==
    {entries, <<Entry(UnknownKey, Text(<<"7">>))>> \o entries,
     Append(entries, Entry(UnknownKey, Plain(Object("Nil", Zero))))}

BridgeInputs ==
    UNION {{[NoConv EXCEPT !.op = "struct", !.shape = S, !.entries = e] :
               e \in UNION {WithUnknownKey(x) : x \in Edited(Structs[S])}} :
           S \in DOMAIN Structs}
      \cup UNION {{[NoConv EXCEPT !.op = "enum_encode", !.shape = E,
                                  !.variant = i] :
                      i \in DOMAIN Enums[E].variants} : E \in DOMAIN Enums}
      \cup UNION {{[NoConv EXCEPT !.op = "enum_roundtrip", !.shape = E,
                                  !.variant = i] :
                      i \in DOMAIN Enums[E].variants} : E \in DecodableEnums}

\* T::try_from(obj) for a struct T
StructDecode ==
    /\ conv.op = "struct" /\ ~conv.done
    /\ conv' = [conv EXCEPT
                   !.done = TRUE,
                   !.out = StructDeserialize(Structs[conv.shape], ptrBits,
                                             conv.entries)]
    /\ UNCHANGED <<ptrBits, apiVars>>

\* Object::try_from(variant) for a unit variant of an enum
EnumEncode ==
    /\ conv.op = "enum_encode" /\ ~conv.done
    /\ conv' = [conv EXCEPT
                   !.done = TRUE,
                   !.text = serialize_unit_variant(Enums[conv.shape],
                                                   conv.variant)]
    /\ UNCHANGED <<ptrBits, apiVars>>

\* the encoded variant decoded again
EnumRoundTrip ==
    LET e == serialize_unit_variant(Enums[conv.shape], conv.variant)
    IN  /\ conv.op = "enum_roundtrip" /\ ~conv.done
        /\ conv' = [conv EXCEPT
                       !.done = TRUE, !.text = e,
                       !.out = EnumDeserialize(Enums[conv.shape], e.obj)]
        /\ UNCHANGED <<ptrBits, apiVars>>

BridgeInit ==
    /\ ptrBits \in {32, 64}
    /\ conv \in BridgeInputs
    /\ ApiIdle

BridgeNext == StructDecode \/ EnumEncode \/ EnumRoundTrip

BridgeSpec == BridgeInit /\ [][BridgeNext]_vars

(***************************************************************************)
(* Spec: the wrappers, called one after the other.                         *)
(***************************************************************************)
Init ==
    /\ ptrBits \in {32, 64}
    /\ conv = NoConv
    /\ ApiIdle

Next ==
    \/ \E Ret \in RetTypes : call_dict_function(Ret)
    \/ call_dict_function_ret
    \/ \E Ret \in RetTypes : call_function(Ret)
    \/ call_function_ret
    \/ command
    \/ command_ret
    \/ \E V \in RetTypes : eval(V)
    \/ eval_ret
    \/ parse_cmd
    \/ parse_cmd_ret
    \/ parse_expression
    \/ parse_expression_ret
    \/ del_var
    \/ del_var_ret
    \/ get_number
    \/ get_number_ret
    \/ \E Var \in RetTypes : get_var(Var)
    \/ get_var_ret
    \/ is_valid
    \/ is_valid_ret
    \/ \E Var \in SetVarTypes : \E v \in SetVarValues(Var) : set_var(Var, v)
    \/ set_var_ret
    \/ clear_namespace
    \/ clear_namespace_ret
    \/ get_extmark_by_id
    \/ get_extmark_by_id_ret
    \/ create_namespace
    \/ create_namespace_ret
    \/ get_namespaces
    \/ get_namespaces_ret
    \/ cmd
    \/ cmd_ret
    \/ exec
    \/ exec_ret
    \/ get_win
    \/ get_win_ret
    \/ list_wins
    \/ list_wins_ret
    \/ add_highlight
    \/ add_highlight_ret
    \/ \E extmark_id \in ExtmarkIds : del_extmark(extmark_id)
    \/ del_extmark_ret
    \/ get_extmarks
    \/ get_extmarks_ret
    \/ set_extmark
    \/ set_extmark_ret
    \/ set_decoration_provider
    \/ set_decoration_provider_ret
    \/ Foreign

Spec == Init /\ [][Next]_vars

(***************************************************************************)
(* Claims about the primitive conversion layer, checked under ConvSpec.    *)
(***************************************************************************)
Decoded(T) == conv.op = "decode" /\ conv.done /\ conv.ty = T

\* the kinds each unchecked accessor may read
AccessorKinds(acc) ==
    CASE acc = "as_boolean_unchecked" -> {"Boolean"}
      [] acc = "as_integer_unchecked" -> {"Integer", "Buffer", "Window", "TabPage"}
      [] acc = "as_float_unchecked"   -> {"Float"}
      [] acc = "into_string_unchecked" -> {"String"}
      [] acc = "into_array_unchecked" -> {"Array"}
      [] acc = "into_dict_unchecked"  -> {"Dictionary"}
      [] acc = "as_luaref_unchecked"  -> {"LuaRef"}
      [] OTHER -> {}

\* the kinds a decode into T accepts
AcceptedKinds(T) ==
    CASE T = "()"         -> {"Nil"}
      [] T = "Boolean"    -> {"Boolean"}
      [] T = "Float"      -> {"Float"}
      [] T = "String"     -> {"String"}
      [] T = "Array"      -> {"Array"}
      [] T = "Dictionary" -> {"Dictionary"}
      [] T = "Function"   -> {"LuaRef"}
      [] OTHER            -> {"Integer", "Buffer", "Window", "TabPage"}

\* C5: a decode invokes an unchecked accessor only on an Object whose kind
\* is the accessor's own variant (as_integer_unchecked also on Buffer,
\* Window and TabPage); an Object of any other kind is rejected with an
\* error and its payload is not read.
C5_UncheckedOnlyOnOwnKind ==
    (conv.op = "decode" /\ conv.done) =>
        /\ conv.dec.accessor # "none" =>
               conv.obj.kind \in AccessorKinds(conv.dec.accessor)
        /\ conv.obj.kind \notin AcceptedKinds(conv.ty) =>
               ~conv.dec.ok /\ conv.dec.accessor = "none"

C5_Witness ==
    /\ Decoded("Integer")
    /\ conv.obj.kind = "Window"
    /\ conv.dec.accessor = "as_integer_unchecked"

\* C6: decoding as Integer succeeds with the stored integer iff the kind is
\* Integer, Buffer, Window or TabPage; any other kind fails with
\* FromWrongType, expected "integer", actual the Object's own kind.
C6_IntegerDecode ==
    Decoded("Integer") =>
        IF conv.obj.kind \in {"Integer", "Buffer", "Window", "TabPage"}
        THEN conv.dec.ok /\ conv.dec.val = conv.obj.bits
        ELSE /\ ~conv.dec.ok
             /\ conv.dec.err =
                    FromWrongType("integer", as_static(conv.obj.kind))

C6_Witness ==
    /\ Decoded("Integer")
    /\ conv.obj.kind = "TabPage"
    /\ conv.dec.ok
    /\ conv.dec.val = Pred(Pow2(63))

\* C7: decoding into a narrower integer type T returns n when the Object is
\* integer-compatible and n is within T's range, fails with FromInt when n
\* is outside it (every negative n for an unsigned T), never returns another
\* value, and fails with FromWrongType for an Object of the wrong kind.
C7_NarrowingDecode ==
    (conv.op = "decode" /\ conv.done /\ conv.ty \in NarrowTypes) =>
        IF conv.obj.kind \notin {"Integer", "Buffer", "Window", "TabPage"}
        THEN ~conv.dec.ok /\ conv.dec.err.variant = "FromWrongType"
        ELSE IF /\ LE(TypeMin(conv.ty, ptrBits), conv.obj.bits)
                /\ LE(conv.obj.bits, TypeMax(conv.ty, ptrBits))
        THEN conv.dec.ok /\ conv.dec.val = conv.obj.bits
        ELSE ~conv.dec.ok /\ conv.dec.err = FromInt

C7_Witness ==
    /\ Decoded("u32")
    /\ conv.obj = Object("Integer", Pow2(32))
    /\ ~conv.dec.ok
    /\ conv.dec.err = FromInt

\* the name the error of a decode into T is said to expect
TargetName(T) ==
    CASE T = "()"         -> "nil"
      [] T = "Boolean"    -> "bool"
      [] T = "Integer"    -> "integer"
      [] T = "Float"      -> "float"
      [] T = "String"     -> "string"
      [] T = "Array"      -> "array"
      [] T = "Dictionary" -> "dictionary"
      [] T = "Function"   -> "function"

\* C8: every FromWrongType error of a primitive decode records the target's
\* own kind as expected and the kind of the input Object as actual.
C8_WrongTypeRecordsBothKinds ==
    (/\ conv.op = "decode" /\ conv.done /\ conv.ty \in PrimTypes
     /\ conv.dec.err.variant = "FromWrongType") =>
        /\ conv.dec.err.expected = TargetName(conv.ty)
        /\ conv.dec.err.actual = as_static(conv.obj.kind)

\* C9: encoding a value v of a big integer type succeeds iff v is in the
\* signed 64-bit range, and then gives an Integer Object holding v; outside
\* the range it fails with FromInt and gives no Object.
C9_BigIntEncode ==
    (conv.op = "encode" /\ conv.done) =>
        IF /\ LE(NegPow2(63), conv.val)
           /\ Less(conv.val, Pow2(63))
        THEN /\ conv.enc.ok
             /\ conv.enc.obj = [kind |-> "Integer", bits |-> conv.val]
        ELSE /\ ~conv.enc.ok
             /\ conv.enc.err = FromInt
             /\ conv.enc.obj = NoObject

C9_Witness ==
    /\ conv.op = "encode" /\ conv.done
    /\ conv.ty = "u128"
    /\ conv.val = Pred(Pow2(128))
    /\ ~conv.enc.ok

\* C10 as stated: every value v of a type with both an encode and a decode
\* survives the round trip, decode(encode(v)) = v.
C10_RoundTripEveryValue ==
    (conv.op = "roundtrip" /\ conv.done) =>
        conv.enc.ok /\ conv.dec.ok /\ conv.dec.val = conv.val

\* C10 amended: a value v in the signed 64-bit range survives the round
\* trip, decode(encode(v)) = v; for a v outside it the encode fails with
\* FromInt and there is nothing to decode.
C10_RoundTripInI64Range ==
    (conv.op = "roundtrip" /\ conv.done) =>
        IF LE(NegPow2(63), conv.val) /\ Less(conv.val, Pow2(63))
        THEN conv.enc.ok /\ conv.dec.ok /\ conv.dec.val = conv.val
        ELSE ~conv.enc.ok /\ conv.enc.err = FromInt /\ conv.dec = NoDec

C10_Witness ==
    /\ conv.op = "roundtrip" /\ conv.done
    /\ conv.ty = "u64"
    /\ conv.val = Pred(Pow2(63))
    /\ conv.dec.ok
    /\ conv.dec.val = conv.val

(***************************************************************************)
(* Claims about the call convention, checked under Spec.                   *)
(***************************************************************************)
\* a wrapper has come back from its foreign call
Completed == pc = "idle" /\ passed.fn # "none"

Events(t) == {t[i] : i \in DOMAIN t}

\* the wrappers whose foreign function returns a payload to decode
PayloadOps == {"eval", "call_function", "call_dict_function", "get_var",
               "parse_cmd", "parse_expression", "get_extmark_by_id"}

\* the success-decode step of each of them, applied to the payload
DecodeStep ==
    CASE frame.op \in {"eval", "call_function", "call_dict_function",
                       "get_var"} ->
             IF TryFromObj(frame.ty, ptrBits, payload.obj).ok
             THEN Ok(<<TryFromObj(frame.ty, ptrBits, payload.obj).val>>)
             ELSE ErrConversion(TryFromObj(frame.ty, ptrBits, payload.obj).err)
      [] frame.op \in {"parse_cmd", "parse_expression"} ->
             IF StructTryFrom(payload.obj).ok
             THEN Ok(<<StructTryFrom(payload.obj).val>>)
             ELSE ErrConversion(StructTryFrom(payload.obj).err)
      [] frame.op = "get_extmark_by_id" ->
             ExtmarkTupleDecode(payload.items, ptrBits)

\* C1: a payload-returning wrapper whose foreign function left the slot in
\* a failure state returns the boundary error and never runs the decode on
\* the payload; with the slot left in the success state it returns exactly
\* the result of the decode.
C1_FailureSkipsDecode ==
    (Completed /\ frame.op \in PayloadOps) =>
        IF err.type # "None"
        THEN /\ result.tag = "Err" /\ result.class = "boundary"
             /\ result.from = err.type
             /\ "use" \notin Events(trace)
        ELSE /\ result = DecodeStep
             /\ trace = <<"is_err", "use">>

C1_Witness ==
    /\ Completed
    /\ frame.op = "eval" /\ frame.ty = "u32"
    /\ err.type = "Exception"
    /\ payload.obj.kind = "Boolean"
    /\ result.class = "boundary"

\* the foreign functions that take no error slot
SlotlessFns == {"nvim_create_namespace", "nvim_get_namespaces",
                "nvim_tabpage_is_valid"}

\* the return value was read only after the slot was inspected
UsedAfterInspection ==
    "use" \in Events(trace) => trace[1] = "is_err"

C3_SlotFreshAtEveryCall ==
    (pc = "foreign" /\ passed.err # 0) =>
        /\ err.id = passed.err
        /\ err.type = "None"
        /\ err.id \notin slots.failed

C3_Witness ==
    /\ pc = "foreign"
    /\ passed.err # 0
    /\ slots.failed # {}
    /\ frame.op = "del_var"

TabPageEncoded == conv.op = "tabpage_roundtrip" /\ conv.done
TabPageDecoded == conv.op = "tabpage_decode" /\ conv.done

C14_TabPageRoundTrips ==
    /\ TabPageEncoded =>
           /\ conv.dec.ok
           /\ conv.dec.val = TabPage(conv.val)
    /\ (TabPageDecoded /\ conv.obj.kind \in IntKinds
          /\ ~InRange(TabHandle, ptrBits, unchecked(conv.obj))) =>
           /\ ~conv.dec.ok
           /\ conv.dec.err = FromInt

C14_Witness ==
    /\ TabPageDecoded
    /\ conv.obj = Object("TabPage", Pow2(31))
    /\ conv.dec.err = FromInt

\* C17: converting a vector to an Object is all or nothing and keeps the
\* order: when every item converts, the result is an Array of the items'
\* Objects in the vector's order; otherwise the result is the error of the
\* first item that fails, no item after it is converted, and no Array,
\* partial or whole, is produced.
C17_VecAllOrNothing ==
    (conv.op = "vec" /\ conv.done) =>
        LET items == conv.items
            bad   == {i \in DOMAIN items : ~InRange("i64", 64, items[i])}
            first == CHOOSE i \in bad : \A j \in bad : i <= j
        IN  IF bad = {}
            THEN /\ conv.vec.ok
                 /\ conv.vec.obj.kind = "Array"
                 /\ Len(conv.vec.items) = Len(items)
                 /\ \A i \in DOMAIN items :
                        conv.vec.items[i] = ObjectFromInteger(items[i])
            ELSE /\ ~conv.vec.ok
                 /\ conv.vec.err = FromInt
                 /\ conv.vec.failedAt = first
                 /\ conv.vec.encoded = first
                 /\ conv.vec.items = <<>>
                 /\ conv.vec.obj = NoObject

C17_Witness ==
    /\ conv.op = "vec" /\ conv.done
    /\ conv.items = <<Zero, Pow2(63), Pred(Pow2(63))>>
    /\ conv.vec.failedAt = 2
    /\ ~conv.vec.ok

(***************************************************************************)
(* Claims about single wrappers (Spec).                                    *)
(***************************************************************************)
\* C18: set_var converts its value before anything crosses the boundary:
\* when the conversion fails, set_var returns that conversion error and
\* nvim_tabpage_set_var is not invoked, so the variable is left as it was;
\* the function is invoked only with a value that converted.
C18_SetVarConvertsBeforeCall ==
    frame.op = "set_var" =>
        IF InRange("i64", 64, frame.val)
        THEN passed.fn = "nvim_tabpage_set_var"
        ELSE /\ pc = "idle"
             /\ passed.fn = "none"
             /\ result = ErrConversion(FromInt)

C18_Witness ==
    /\ frame.op = "set_var"
    /\ frame.val = Pow2(63)
    /\ passed.fn = "none"
    /\ result = ErrConversion(FromInt)

\* C19: del_extmark returns Ok(()) exactly when the slot is in the success
\* state and the deletion reports that the extmark was found; with the slot
\* in a failure state it returns the boundary error made from the slot,
\* whatever the flag; with a successful slot and the flag false it returns
\* the custom error "No extmark with id <extmark_id> was found".
C19_DelExtmarkOutcomes ==
    (Completed /\ frame.op = "del_extmark") =>
        LET was_found == payload.obj.bits # Zero
        IN  /\ result.tag = "Ok" <=> (~is_err(err) /\ was_found)
            /\ is_err(err) => result = ErrBoundary(err)
            /\ (~is_err(err) /\ ~was_found) =>
                   /\ result.tag = "Err"
                   /\ result.class = "custom"
                   /\ result.msg =
                          <<"No extmark with id ", frame.val, " was found">>

C19_Witness ==
    /\ Completed
    /\ frame.op = "del_extmark"
    /\ frame.val = One
    /\ ~is_err(err)
    /\ payload.obj = Object("Boolean", Zero)
    /\ result.class = "custom"

\* the wrappers C15 names, and whether the payload the completed call got
\* holds something its decode rejects with a conversion error
NarrowingOps == {"set_extmark", "get_number", "create_namespace"}
ElementOps   == {"get_extmarks", "list_wins"}

ExtmarkTupleRejected(t, p) ==
    \/ ~ArrayTryFrom(t.obj).ok
    \/ Len(t.items) >= 1 /\ ~try_from_int("u32", p, t.items[1]).ok
    \/ Len(t.items) >= 2 /\ ~try_from_int("usize", p, t.items[2]).ok
    \/ Len(t.items) >= 3 /\ ~try_from_int("usize", p, t.items[3]).ok
    \/ Len(t.items) >= 4 /\ ~StructTryFrom(t.items[4]).ok

PayloadRejected ==
    CASE frame.op \in NarrowingOps -> ~InRange("u32", 32, payload.obj.bits)
      [] frame.op = "list_wins" ->
             \E i \in DOMAIN payload.items :
                 ~try_from_int("i32", ptrBits, payload.items[i]).ok
      [] frame.op = "get_extmarks" ->
             \E i \in DOMAIN payload.items :
                 ExtmarkTupleRejected(payload.items[i], ptrBits)
      [] OTHER -> FALSE

\* C15: a conversion error met while decoding the payload of a successful
\* call comes back as a structured conversion error: in the per-element
\* decodes of get_extmarks and list_wins and in the integer narrowing of
\* set_extmark, get_number and create_namespace the call neither panics nor
\* drops the error.
C15_DecodeErrorsPropagate ==
    (Completed /\ frame.op \in NarrowingOps \cup ElementOps
       /\ (err = NoSlot \/ ~is_err(err)) /\ PayloadRejected) =>
        /\ result.tag = "Err"
        /\ result.class = "conversion"

(***************************************************************************)
(* Claims about the structural bridge (BridgeSpec).                        *)
(***************************************************************************)
StructDecoded == conv.op = "struct" /\ conv.done
EnumEncoded   == conv.op \in {"enum_encode", "enum_roundtrip"} /\ conv.done

\* the fields of the struct decoded, and the entry of the map at a field
FieldsOf   == Structs[conv.shape]
Present(j) == \E i \in DOMAIN conv.entries :
                  conv.entries[i].key = FieldsOf[j].name
ValueOf(j) ==
    conv.entries[CHOOSE i \in DOMAIN conv.entries :
                     conv.entries[i].key = FieldsOf[j].name].value
\* every field but j is in the map with a value it accepts
OthersGood(j) ==
    \A k \in DOMAIN FieldsOf \ {j} :
        Present(k) /\ ValueOf(k) = GoodValue(FieldsOf[k])
Named(S, name) ==
    IF conv.shape = S
    THEN {j \in DOMAIN FieldsOf : FieldsOf[j].name = name}
    ELSE {}

\* the kinds of Object the decode of a field type takes
FieldKinds(ty) ==
    CASE ty = "bool"                    -> {"Boolean"}
      [] ty \in IntTypes                -> IntKinds
      [] ty \in {"Vec"}                 -> {"Array"}
      [] ty \in {"Function"}            -> {"LuaRef"}
      [] OTHER                          -> {"String"}

\* what C11 says of field j
OptionFieldRule(j) ==
    Present(j) =>
        /\ (ValueOf(j).kind = "Nil" /\ OthersGood(j)) =>
               conv.out.ok /\ conv.out.val[j] = None
        /\ (ValueOf(j).kind \notin FieldKinds(FieldsOf[j].ty) \cup {"Nil"}) =>
               ~conv.out.ok /\ conv.out.err.variant = "Serde"

\* C11: for every Option<T> field of a decoded struct (ProcInfos.pid,
\* HighlightInfos.bold among them) Nil at the field's key decodes to None,
\* and a value that is not Nil and of a kind the decode of T rejects makes
\* the decode of the whole struct fail.
C11_OptionFields ==
    StructDecoded =>
        \A j \in DOMAIN FieldsOf :
            (FieldsOf[j].option \/ j \in Named("ProcInfos", "pid")
                                \/ j \in Named("HighlightInfos", "bold")) =>
                OptionFieldRule(j)

\* C11 amended: the same for every Option<T> field that has no
\* deserialize_with function; CommandInfos.count, decoded by parse_count,
\* is the exception: it takes Nil or a String and rejects an Integer.
C11_OptionFieldsOfGenericDriver ==
    StructDecoded =>
        \A j \in DOMAIN FieldsOf :
            IF j \in Named("CommandInfos", "count")
            THEN Present(j) =>
                     /\ (ValueOf(j).kind = "Nil" /\ OthersGood(j)) =>
                            conv.out.ok /\ conv.out.val[j] = None
                     /\ ValueOf(j).kind \notin {"Nil", "String"} =>
                            ~conv.out.ok
                     /\ (ValueOf(j) = Text(<<"7">>) /\ OthersGood(j)) =>
                            conv.out.ok /\ conv.out.val[j] = Some(Seven)
            ELSE (FieldsOf[j].option \/ j \in Named("ProcInfos", "pid")
                    \/ j \in Named("HighlightInfos", "bold")) =>
                     OptionFieldRule(j)

C11_Witness ==
    /\ StructDecoded
    /\ \E j \in Named("ProcInfos", "pid") :
           /\ Present(j) /\ OthersGood(j)
           /\ ValueOf(j) = Plain(Object("Boolean", One))
    /\ conv.out.err = Serde("invalid type", "")

\* the map decoded is the map without its unknown key, which it has
HasUnknownKey ==
    \E i \in DOMAIN conv.entries : conv.entries[i].key = UnknownKey
WithoutUnknownKey ==
    SelectSeq(conv.entries, LAMBDA e : e.key # UnknownKey)

\* the fields C12 names as required
NamedRequired ==
    Named("ExtmarkInfos", "right_gravity") \cup Named("GotMode", "blocking")

\* a map without the key of field j, every other field fine, decodes with
\* the field absent
AbsentWithoutError(j) ==
    (~Present(j) /\ OthersGood(j)) =>
        /\ conv.out.ok
        /\ conv.out.val[j] = DefaultOf(FieldsOf[j])

\* a map without the key of field j, every other field fine, fails with the
\* error naming the field, and no struct comes back
MissingKeyFails(j) ==
    (~Present(j) /\ OthersGood(j)) =>
        conv.out = DecErr(Serde("missing field", FieldsOf[j].name), "none")

\* a key that names no field changes nothing
UnknownKeyIgnored ==
    HasUnknownKey =>
        conv.out = StructDeserialize(FieldsOf, ptrBits, WithoutUnknownKey)

\* C12: a map with a key that names no field decodes to what the map
\* without that key decodes to; a map lacking the key of an Option field or
\* of a field marked default decodes with that field absent and no error; a
\* map lacking the key of a required field (ExtmarkInfos.right_gravity,
\* GotMode.blocking) fails with the error naming that key and gives no struct.
C12_KeysUnknownAndMissing ==
    StructDecoded =>
        /\ UnknownKeyIgnored
        /\ \A j \in DOMAIN FieldsOf :
               IF j \in NamedRequired
                    \/ (~FieldsOf[j].option /\ ~FieldsOf[j].default)
               THEN MissingKeyFails(j)
               ELSE AbsentWithoutError(j)

\* C12 amended: as C12, except that an Option field with a deserialize_with
\* function and no default (CommandInfos.count) is a required field: a map
\* lacking its key fails with the error naming it.
C12_KeysUnknownMissingAndHooked ==
    StructDecoded =>
        /\ UnknownKeyIgnored
        /\ \A j \in DOMAIN FieldsOf :
               IF j \in NamedRequired \cup Named("CommandInfos", "count")
                    \/ (~FieldsOf[j].option /\ ~FieldsOf[j].default)
               THEN MissingKeyFails(j)
               ELSE AbsentWithoutError(j)

C12_Witness ==
    /\ StructDecoded
    /\ HasUnknownKey
    /\ \E j \in Named("ExtmarkInfos", "right_gravity") :
           ~Present(j) /\ OthersGood(j)
    /\ conv.out.err = Serde("missing field", "right_gravity")

\* C16: a unit variant encodes to a String holding its declared name, the
\* snake_case names for CommandAddr (LoadedBuffers gives "loaded_buffers")
\* and "0", "1", "?", "+", "*" for CommandNArgs; no two variants of an enum
\* encode to the same String; and for CommandAddr and CommandNArgs decoding
\* the encoded String gives back the variant.
C16_UnitVariantsEncodeToNames ==
    LET addr  == << <<"l", "i", "n", "e", "s">>,
                    <<"a", "r", "g", "u", "m", "e", "n", "t", "s">>,
                    <<"b", "u", "f", "f", "e", "r", "s">>,
                    <<"l", "o", "a", "d", "e", "d", "_", "b", "u", "f", "f", "e", "r", "s">>,
                    <<"w", "i", "n", "d", "o", "w", "s">>,
                    <<"t", "a", "b", "s">>,
                    <<"q", "u", "i", "c", "k", "f", "i", "x">>,
                    <<"o", "t", "h", "e", "r">> >>
        nargs == << <<"0">>, <<"1">>, <<"?">>, <<"+">>, <<"*">> >>
        E     == Enums[conv.shape]
    IN  /\ EnumEncoded =>
               /\ conv.text.ok
               /\ conv.text.obj.kind = "String"
               /\ conv.shape = "CommandAddr" =>
                      conv.text.obj.text = addr[conv.variant]
               /\ conv.shape = "CommandNArgs" =>
                      conv.text.obj.text = nargs[conv.variant]
               /\ \A i \in DOMAIN E.variants \ {conv.variant} :
                      serialize_unit_variant(E, i) # conv.text
        /\ (conv.op = "enum_roundtrip" /\ conv.done) =>
               /\ conv.out.ok
               /\ conv.out.val = conv.variant

C16_Witness ==
    /\ conv.op = "enum_roundtrip" /\ conv.done
    /\ conv.shape = "CommandAddr"
    /\ conv.variant = 4
    /\ conv.text.obj = Text(<<"l", "o", "a", "d", "e", "d", "_", "b", "u", "f", "f", "e", "r", "s">>)
    /\ conv.out.val = 4

\* the count texts that are one or more decimal digits of a number no
\* larger than u32::MAX, each with its number
DecimalCounts ==
    { <<<<"0">>, Zero>>, <<<<"7">>, Seven>>, <<<<"0", "0", "7">>, Seven>>,
      <<<<"4", "2", "9", "4", "9", "6", "7", "2", "9", "5">>, Pred(Pow2(32))>> }

\* the count of CommandInfos is at its key and every other field is fine
CountDecoded(j) ==
    /\ StructDecoded
    /\ j \in Named("CommandInfos", "count")
    /\ Present(j) /\ OthersGood(j)

CountIsSome(j, n)  == conv.out.ok /\ conv.out.val[j] = Some(n)
CountFails         == ~conv.out.ok /\ conv.out.err.variant = "Serde"

\* C20: the count of CommandInfos decodes Nil to None and a String that is
\* the decimal representation of a number within the u32 range to that
\* number; every other String (not a number, out of range, empty) and every
\* Object that is neither a String nor Nil fails the whole decode with a
\* Serde error.
C20_CountParsesDecimalOnly ==
    StructDecoded =>
        \A j \in DOMAIN FieldsOf :
            CountDecoded(j) =>
                LET v == ValueOf(j)
                IN  /\ v.kind = "Nil" => conv.out.ok /\ conv.out.val[j] = None
                    /\ \A d \in DecimalCounts :
                           v = Text(d[1]) => CountIsSome(j, d[2])
                    /\ (v.kind = "String"
                          /\ v.text \notin {d[1] : d \in DecimalCounts}) =>
                           CountFails
                    /\ v.kind \notin {"String", "Nil"} => CountFails

\* C20 amended: as C20, with the number written as one or more decimal
\* digits that a single "+" may precede; every other String (a lone sign, a
\* "-" sign and blanks included) fails.
C20_CountParsesSignedDecimal ==
    StructDecoded =>
        \A j \in DOMAIN FieldsOf :
            CountDecoded(j) =>
                LET v    == ValueOf(j)
                    plus == {<<<<"+">> \o d[1], d[2]>> : d \in DecimalCounts}
                IN  /\ v.kind = "Nil" => conv.out.ok /\ conv.out.val[j] = None
                    /\ \A d \in DecimalCounts \cup plus :
                           v = Text(d[1]) => CountIsSome(j, d[2])
                    /\ (v.kind = "String"
                          /\ v.text \notin {d[1] : d \in DecimalCounts \cup plus})
                           => CountFails
                    /\ v.kind \notin {"String", "Nil"} => CountFails

C20_Witness ==
    /\ StructDecoded
    /\ \E j \in DOMAIN FieldsOf :
           /\ CountDecoded(j)
           /\ ValueOf(j) = Text(<<"4", "2", "9", "4", "9", "6", "7", "2", "9", "6">>)
    /\ conv.out.err =
           Serde("custom", "number too large to fit in target type")

====
